---- MODULE Spec2Model ----
(***************************************************************************)
(* Model of HolidayService (services.py): the SQLite store with its two    *)
(* tables, _save_verified_holiday, get_holidays_for_date, the source       *)
(* adapters, the LLM response parser and process_holidays_for_period.      *)
(*                                                                         *)
(* Python values whose type matters are tagged records [t, v]:             *)
(*   None -> [t |-> "none"], a str -> [t |-> "str", v |-> <<chars>>],      *)
(*   a bool -> [t |-> "bool"], a number -> [t |-> "num"],                  *)
(*   a list -> [t |-> "list", v |-> <<elements>>].                         *)
(* A dict is a record; a key the dict lacks is a field the record lacks.   *)
(* Holiday names, country codes and region names are plain strings.        *)
(***************************************************************************)
EXTENDS Integers, Sequences, FiniteSets, TLC

----------------------------------------------------------------------------
(* Bounds of the model *)

MaxSaves == 2
MaxCands == 2
MaxText == 5

----------------------------------------------------------------------------
(* Python values *)

PyNone == [t |-> "none", v |-> 0]
PyStr(chars) == [t |-> "str", v |-> chars]
PyBool(b) == [t |-> "bool", v |-> b]
PyNum(n) == [t |-> "num", v |-> n]
PyList(elems) == [t |-> "list", v |-> elems]

\* Python truthiness (bool(x)) of a tagged value
Truthy(x) ==
    CASE x.t = "none" -> FALSE
      [] x.t = "bool" -> x.v
      [] x.t = "num" -> x.v # 0
      [] x.t = "str" -> Len(x.v) > 0
      [] x.t = "list" -> Len(x.v) > 0

Range(seq) == {seq[i] : i \in 1..Len(seq)}

\* dict.get(key, default)
DictGet(d, key, default) == IF key \in DOMAIN d THEN d[key] ELSE default

----------------------------------------------------------------------------
(* Date strings, as sequences of characters *)

D25 == <<"2","0","2","4","-","1","2","-","2","5">>
D28 == <<"2","0","2","4","-","1","2","-","2","8">>
D29 == <<"2","0","2","4","-","1","2","-","2","9">>
D1111 == <<"2","0","2","4","-","1","1","-","1","1">>
D23 == <<"2","0","2","3","-","1","2","-","2","5">>
DDots == <<"2","8",".","1","2",".","2","0","2","4">>
DShort == <<"2","0","2","4">>

Digits == {"0","1","2","3","4","5","6","7","8","9"}

DigitVal(c) ==
    CASE c = "0" -> 0 [] c = "1" -> 1 [] c = "2" -> 2 [] c = "3" -> 3
      [] c = "4" -> 4 [] c = "5" -> 5 [] c = "6" -> 6 [] c = "7" -> 7
      [] c = "8" -> 8 [] c = "9" -> 9

AllDigits(s) == Len(s) > 0 /\ \A i \in 1..Len(s) : s[i] \in Digits

RECURSIVE DecValue(_)
DecValue(s) ==
    IF Len(s) = 0 THEN 0
    ELSE 10 * DecValue(SubSeq(s, 1, Len(s) - 1)) + DigitVal(s[Len(s)])

\* Python slice s[a:b] (0-based, end exclusive, clipped to the string)
Slice(s, a, b) ==
    LET hi == IF b > Len(s) THEN Len(s) ELSE b
    IN  IF a >= hi THEN <<>> ELSE SubSeq(s, a + 1, hi)

\* int(s) on a slice of a date string: [ok |-> FALSE] stands for ValueError
PyInt(s) ==
    IF AllDigits(s) THEN [ok |-> TRUE, n |-> DecValue(s)] ELSE [ok |-> FALSE, n |-> 0]

\* positions of "-" in s
Dashes(s) == {i \in 1..Len(s) : s[i] = "-"}

IsLeap(y) == (y % 4 = 0) /\ ((y % 100 # 0) \/ (y % 400 = 0))

DaysInMonth(y, m) ==
    IF m = 2 THEN (IF IsLeap(y) THEN 29 ELSE 28)
    ELSE IF m \in {4, 6, 9, 11} THEN 30 ELSE 31

RECURSIVE DaysBeforeMonth(_, _)
DaysBeforeMonth(y, m) ==
    IF m = 1 THEN 0 ELSE DaysBeforeMonth(y, m - 1) + DaysInMonth(y, m - 1)

DaysBeforeYear(y) ==
    (y - 1) * 365 + ((y - 1) \div 4) - ((y - 1) \div 100) + ((y - 1) \div 400)

\* datetime.datetime.strptime(s, '%Y-%m-%d'): [ok |-> FALSE] is ValueError
Strptime(s) ==
    LET bad == [ok |-> FALSE, y |-> 0, m |-> 0, d |-> 0]
    IN  IF Cardinality(Dashes(s)) # 2 THEN bad
        ELSE LET p1 == CHOOSE i \in Dashes(s) : \A j \in Dashes(s) : i <= j
                 p2 == CHOOSE i \in Dashes(s) : \A j \in Dashes(s) : i >= j
                 ys == SubSeq(s, 1, p1 - 1)
                 ms == SubSeq(s, p1 + 1, p2 - 1)
                 ds == SubSeq(s, p2 + 1, Len(s))
             IN  IF ~(Len(ys) = 4 /\ AllDigits(ys)) THEN bad
                 ELSE IF ~(Len(ms) \in {1, 2} /\ AllDigits(ms)) THEN bad
                 ELSE IF ~(Len(ds) \in {1, 2} /\ AllDigits(ds)) THEN bad
                 ELSE LET y == DecValue(ys)
                          m == DecValue(ms)
                          d == DecValue(ds)
                      IN  IF y < 1 \/ m < 1 \/ m > 12 \/ d < 1 THEN bad
                          ELSE IF d > DaysInMonth(y, m) THEN bad
                          ELSE [ok |-> TRUE, y |-> y, m |-> m, d |-> d]

\* datetime.weekday(): Monday is 0, Sunday is 6
Weekday(y, m, d) == (DaysBeforeYear(y) + DaysBeforeMonth(y, m) + d + 6) % 7

\* a weekend test that takes only Sunday for a weekend
SundayOnly(date) ==
    IF ~Truthy(date) THEN "false"
    ELSE IF date.t # "str" THEN "raise"
    ELSE LET dt == Strptime(date.v)
         IN  IF ~dt.ok THEN "false"
             ELSE IF Weekday(dt.y, dt.m, dt.d) >= 6 THEN "true" ELSE "false"

\* HolidayService._is_weekend; result "raise" is an exception other than
\* ValueError (strptime given a non-string)
_is_weekend(date) ==
    IF ~Truthy(date) THEN "false"
    ELSE IF date.t # "str" THEN "raise"
    ELSE LET dt == Strptime(date.v)
         IN  IF ~dt.ok THEN "false"
             ELSE IF Weekday(dt.y, dt.m, dt.d) >= 5 THEN "true" ELSE "false"

----------------------------------------------------------------------------
(* The store: tables holidays and regions of _init_db *)

VARIABLES holidays, regions, lastCall, nSaves

VARIABLES pc, country_code, raw_holidays, holidays_to_check, idx, apiAttempt,
          safeAttempt, saveCalls, lastEvent, sent, unitResult, store0,
          grand_total_tokens, llm_call

VARIABLES response_text, parse_result

\* what a caller got from get_holidays_for_date after a unit
VARIABLES fetched

\* two units saving in parallel: the connection of each (where its
\* _save_verified_holiday is, with the tables as its transaction sees them)
\* and the unit holding the write lock of the database file (0: none)
VARIABLES conn, db_lock

\* one attempt of create_chat_completion: what requests.post met, and what
\* the attempt returned or raised
VARIABLES http_response, completion

concVars == <<conn, db_lock>>

clientVars == <<http_response, completion>>

parserVars == <<response_text, parse_result>>

unitVars == <<pc, country_code, raw_holidays, holidays_to_check, idx, apiAttempt,
              safeAttempt, saveCalls, lastEvent, sent, unitResult, store0,
              grand_total_tokens, llm_call>>

\* the variables of the other parts of the service, which the store and
\* the unit leave alone
restVars == <<parserVars, fetched, concVars, clientVars>>

Max(S) == CHOOSE x \in S : \A y \in S : y <= x

\* INTEGER PRIMARY KEY AUTOINCREMENT: one more than the largest id in use
NextId(rows) == IF rows = {} THEN 1 ELSE Max({r.id : r \in rows}) + 1

\* rows of holidays matching the UNIQUE(country_code, holiday_date, holiday_name) key
HolidayRows(hs, cc, date, name) ==
    {h \in hs : h.country_code = cc /\ h.holiday_date = date /\ h.holiday_name = name}

\* a plain INSERT, without the OR IGNORE conflict clause and without the
\* UNIQUE constraint
InsertHolidayAlways(hs, cc, date, name) ==
    IF date.t = "none" THEN hs
    ELSE hs \cup {[id |-> NextId(hs), country_code |-> cc,
                   holiday_date |-> date.v, holiday_name |-> name]}

\* INSERT OR REPLACE INTO holidays: a UNIQUE conflict deletes the old row
\* and inserts the new one under a new id
InsertOrReplaceHoliday(hs, cc, date, name) ==
    IF date.t = "none" THEN hs
    ELSE (hs \ HolidayRows(hs, cc, date.v, name))
         \cup {[id |-> NextId(hs), country_code |-> cc,
                holiday_date |-> date.v, holiday_name |-> name]}

\* INSERT OR IGNORE INTO holidays: a NOT NULL or UNIQUE conflict skips the row
InsertOrIgnoreHoliday(hs, cc, date, name) ==
    IF date.t = "none" THEN hs
    ELSE IF HolidayRows(hs, cc, date.v, name) # {} THEN hs
    ELSE hs \cup {[id |-> NextId(hs), country_code |-> cc,
                   holiday_date |-> date.v, holiday_name |-> name]}

\* INSERT OR IGNORE INTO regions (holiday_id, region_name)
InsertOrIgnoreRegion(rs, hid, rname) ==
    IF \E r \in rs : r.holiday_id = hid /\ r.region_name = rname THEN rs
    ELSE rs \cup {[id |-> NextId(rs), holiday_id |-> hid, region_name |-> rname]}

\* cursor.execute in place of executemany: only the first name is inserted
ExecuteFirstRegion(rs, hid, names) ==
    IF Len(names) = 0 THEN rs ELSE InsertOrIgnoreRegion(rs, hid, Head(names))

\* cursor.executemany over regions_to_insert, in list order
RECURSIVE ExecuteManyRegions(_, _, _)
ExecuteManyRegions(rs, hid, names) ==
    IF Len(names) = 0 THEN rs
    ELSE ExecuteManyRegions(InsertOrIgnoreRegion(rs, hid, Head(names)), hid, Tail(names))

\* holiday_data['date'] and holiday_data['name'] raise KeyError on a dict
\* that lacks the key
HasRequiredKeys(data) == "date" \in DOMAIN data /\ "name" \in DOMAIN data

\* the branch "if not regions or regions == ['All']" of _save_verified_holiday
NoRegionRestriction(regs) == ~Truthy(regs) \/ regs = PyList(<<"All">>)

\* the rows of hs the SELECT id ... WHERE of _save_verified_holiday finds
SelectHolidayId(hs, cc, date, name) ==
    IF date.t = "none" THEN {} ELSE HolidayRows(hs, cc, date.v, name)

\* a save on a connection that commits every statement by itself: what was
\* inserted before the failing statement stays
SaveWithoutRollback(hs, rs, cc, data, fail) ==
    LET same(o) == [holidays |-> hs, regions |-> rs, outcome |-> o]
    IN  IF fail = "early" THEN same("sqlite_error")
        ELSE IF ~HasRequiredKeys(data) THEN same("key_error")
        ELSE LET hs1 == InsertOrIgnoreHoliday(hs, cc, data.date, data.name)
                 found == SelectHolidayId(hs1, cc, data.date, data.name)
             IN  IF found = {} THEN same("not_found")
                 ELSE LET holiday_id == Max({h.id : h \in found})
                          regs == DictGet(data, "regions", PyList(<<>>))
                      IN  IF NoRegionRestriction(regs)
                          THEN [holidays |-> hs1, regions |-> rs,
                                outcome |-> IF fail = "commit" THEN "sqlite_error"
                                            ELSE "saved_no_regions"]
                          ELSE IF regs.t # "list"
                          THEN [holidays |-> hs1, regions |-> rs, outcome |-> "type_error"]
                          ELSE IF fail = "regions"
                          THEN [holidays |-> hs1,
                                regions |-> ExecuteFirstRegion(rs, holiday_id, regs.v),
                                outcome |-> "sqlite_error"]
                          ELSE [holidays |-> hs1,
                                regions |-> ExecuteManyRegions(rs, holiday_id, regs.v),
                                outcome |-> IF fail = "commit" THEN "sqlite_error"
                                            ELSE "saved"]

\* a save without the "except sqlite3.Error" clause: the storage error
\* leaves the method
SaveLetsStorageErrorEscape(hs, rs, cc, data, fail) ==
    LET same(o) == [holidays |-> hs, regions |-> rs, outcome |-> o]
    IN  IF fail = "early" THEN same("sqlite_error_raised")
        ELSE IF ~HasRequiredKeys(data) THEN same("key_error")
        ELSE LET hs1 == InsertOrIgnoreHoliday(hs, cc, data.date, data.name)
                 found == SelectHolidayId(hs1, cc, data.date, data.name)
             IN  IF found = {} THEN same("not_found")
                 ELSE LET holiday_id == Max({h.id : h \in found})
                          regs == DictGet(data, "regions", PyList(<<>>))
                      IN  IF NoRegionRestriction(regs)
                          THEN IF fail = "commit" THEN same("sqlite_error_raised")
                               ELSE [holidays |-> hs1, regions |-> rs,
                                     outcome |-> "saved_no_regions"]
                          ELSE IF regs.t # "list" THEN same("type_error")
                          ELSE IF fail \in {"regions", "commit"}
                               THEN same("sqlite_error_raised")
                          ELSE [holidays |-> hs1,
                                regions |-> ExecuteManyRegions(rs, holiday_id, regs.v),
                                outcome |-> "saved"]

\* a save without the "except KeyError" clause: the missing key's error
\* leaves the method
SaveLetsKeyErrorEscape(hs, rs, cc, data, fail) ==
    LET same(o) == [holidays |-> hs, regions |-> rs, outcome |-> o]
    IN  IF fail = "early" THEN same("sqlite_error")
        ELSE IF ~HasRequiredKeys(data) THEN same("key_error_raised")
        ELSE LET hs1 == InsertOrIgnoreHoliday(hs, cc, data.date, data.name)
                 found == SelectHolidayId(hs1, cc, data.date, data.name)
             IN  IF found = {} THEN same("not_found")
                 ELSE LET holiday_id == Max({h.id : h \in found})
                          regs == DictGet(data, "regions", PyList(<<>>))
                      IN  IF NoRegionRestriction(regs)
                          THEN IF fail = "commit" THEN same("sqlite_error")
                               ELSE [holidays |-> hs1, regions |-> rs,
                                     outcome |-> "saved_no_regions"]
                          ELSE IF regs.t # "list" THEN same("type_error")
                          ELSE IF fail \in {"regions", "commit"} THEN same("sqlite_error")
                          ELSE [holidays |-> hs1,
                                regions |-> ExecuteManyRegions(rs, holiday_id, regs.v),
                                outcome |-> "saved"]

\* HolidayService._save_verified_holiday as one transaction on (hs, rs).
\* fail names the statement at which sqlite3 raises: "none", "early"
\* (connect, PRAGMA, INSERT or SELECT), "regions" (executemany), "commit".
\* An exception leaves the with-block, which rolls the transaction back.
_save_verified_holiday(hs, rs, cc, data, fail) ==
    LET same(o) == [holidays |-> hs, regions |-> rs, outcome |-> o]
    IN  IF fail = "early" THEN same("sqlite_error")
        ELSE IF ~HasRequiredKeys(data) THEN same("key_error")
        ELSE LET hs1 == InsertOrIgnoreHoliday(hs, cc, data.date, data.name)
                 found == SelectHolidayId(hs1, cc, data.date, data.name)
             IN  IF found = {} THEN same("not_found")
                 ELSE LET holiday_id == Max({h.id : h \in found})
                          regs == DictGet(data, "regions", PyList(<<>>))
                      IN  IF NoRegionRestriction(regs)
                          THEN IF fail = "commit" THEN same("sqlite_error")
                               ELSE [holidays |-> hs1, regions |-> rs,
                                     outcome |-> "saved_no_regions"]
                          ELSE IF regs.t # "list" THEN same("type_error")
                          ELSE IF fail \in {"regions", "commit"} THEN same("sqlite_error")
                          ELSE [holidays |-> hs1,
                                regions |-> ExecuteManyRegions(rs, holiday_id, regs.v),
                                outcome |-> "saved"]

\* rows in increasing id order
RECURSIVE SortById(_)
SortById(S) ==
    IF S = {} THEN <<>>
    ELSE LET m == CHOOSE x \in S : \A y \in S : x.id <= y.id
         IN  <<m>> \o SortById(S \ {m})

\* the loop over cursor.fetchall(): a region_name that is NULL (no region
\* row joined) or empty is not appended
RECURSIVE AppendTruthyNames(_)
AppendTruthyNames(rows) ==
    IF Len(rows) = 0 THEN <<>>
    ELSE (IF Head(rows).region_name # "" THEN <<Head(rows).region_name>> ELSE <<>>)
         \o AppendTruthyNames(Tail(rows))

\* HolidayService.get_holidays_for_date: country_code -> holiday_name -> list
\* of region names, from holidays LEFT JOIN regions WHERE holiday_date = ?.
\* SQL leaves the order of the joined region rows open; rowid order is used.
get_holidays_for_date(hs, rs, target_date, fail) ==
    IF fail THEN <<>>
    ELSE LET onDate == {h \in hs : h.holiday_date = target_date}
             joined(cc, name) ==
                 {r \in rs : \E h \in onDate : /\ h.country_code = cc
                                               /\ h.holiday_name = name
                                               /\ r.holiday_id = h.id}
         IN  [cc \in {h.country_code : h \in onDate} |->
                [name \in {h.holiday_name : h \in {g \in onDate : g.country_code = cc}} |->
                    AppendTruthyNames(SortById(joined(cc, name)))]]

----------------------------------------------------------------------------
(* Inputs of the direct calls *)

CountryCodes == {"CA", "FR"}

\* (country_code, date, name) of the holiday_data handed to a save; the
\* value "absent" marks a dict without that key
SaveKeys ==
    { <<"CA", PyStr(D25), "Christmas Day">>,
      <<"FR", PyStr(D25), "Christmas Day">>,
      <<"CA", PyStr(D25), "Boxing Day">>,
      <<"CA", PyStr(D28), "Christmas Day">>,
      <<"CA", PyNone, "Christmas Day">>,
      <<"CA", PyStr(<<"absent">>), "Christmas Day">>,
      <<"CA", PyStr(D25), "absent">> }

\* values of holiday_data['regions']; "absent" marks a dict without the key
RegionValues ==
    { PyStr(<<"absent">>), PyNone, PyList(<<>>), PyList(<<"All">>),
      PyList(<<"National Holiday">>), PyList(<<"Quebec">>),
      PyList(<<"Quebec", "Ontario", "Quebec">>), PyList(<<"Quebec", "">>), PyNum(5) }

Absent == PyStr(<<"absent">>)

\* the holiday_data dict for a key and a regions value
HolidayData(key, regs, flag) ==
    LET base == [is_holiday |-> flag]
        d1 == IF key[2] = Absent THEN base ELSE [x \in DOMAIN base \cup {"date"} |->
                    IF x = "date" THEN key[2] ELSE base[x]]
        d2 == IF key[3] = "absent" THEN d1 ELSE [x \in DOMAIN d1 \cup {"name"} |->
                    IF x = "name" THEN key[3] ELSE d1[x]]
    IN  IF regs = Absent THEN d2 ELSE [x \in DOMAIN d2 \cup {"regions"} |->
                    IF x = "regions" THEN regs ELSE d2[x]]

SaveFailures == {"none", "early", "regions", "commit"}

\* the direct saves: every holiday_data without a storage failure, and each
\* storage failure on a holiday with two regions and on one with none
SaveCases ==
    {[key |-> k, regs |-> r, fail |-> "none"] : k \in SaveKeys, r \in RegionValues}
    \cup {[key |-> <<"CA", PyStr(D25), "Christmas Day">>, regs |-> r, fail |-> x] :
            r \in {PyList(<<"Quebec", "Ontario", "Quebec">>), PyList(<<>>)},
            x \in SaveFailures}

FetchDates == {D25, D28}

NoCall == [op |-> "none"]

\* a direct call of _save_verified_holiday; lastCall keeps the call, the
\* storage failure it met, its outcome and the tables as they were before it
Save(key, regs, fail) ==
    /\ nSaves < MaxSaves
    /\ LET data == HolidayData(key, regs, PyBool(TRUE))
           res == _save_verified_holiday(holidays, regions, key[1], data, fail)
       IN  /\ holidays' = res.holidays
           /\ regions' = res.regions
           /\ lastCall' = [op |-> "save", country_code |-> key[1], data |-> data,
                           outcome |-> res.outcome, fail |-> fail,
                           before |-> [holidays |-> holidays, regions |-> regions]]
    /\ nSaves' = nSaves + 1
    /\ UNCHANGED <<unitVars, restVars>>

\* a call of get_holidays_for_date
Fetch(target_date, fail) ==
    /\ lastCall' = [op |-> "fetch", date |-> target_date, failed |-> fail,
                    result |-> get_holidays_for_date(holidays, regions, target_date, fail)]
    /\ UNCHANGED <<holidays, regions, nSaves, unitVars, restVars>>

----------------------------------------------------------------------------
(* Source adapters *)

\* the year and month arguments of the unit, as the strings the caller passes
UnitYear == <<"2","0","2","4">>
UnitMonth == <<"1","2">>

NoList == [raised |-> FALSE, list |-> <<>>]
Raised == [raised |-> TRUE, list |-> <<>>]

\* HolidayService._get_from_api: the decoded body, or [] after a network or
\* JSON decoding error (requests.RequestException, json.JSONDecodeError)
_get_from_api(upstream) ==
    IF upstream.t = "fail" THEN PyList(<<>>) ELSE upstream

\* one entry of the API-Ninjas loop: "skip", "raise" (int() of a slice that
\* is not a number) or "keep"
NinjasEntry(entry, year, month) ==
    LET holiday_date == DictGet(entry, "date", <<>>)
        reasons == DictGet(entry, "reasons", <<>>)
    IN  IF Len(holiday_date) = 0 \/ Len(reasons) = 0 THEN "skip"
        ELSE IF "weekend" \in Range(reasons) THEN "skip"
        ELSE IF ~PyInt(Slice(holiday_date, 5, 7)).ok THEN "raise"
        ELSE IF PyInt(Slice(holiday_date, 5, 7)).n # PyInt(month).n THEN "skip"
        ELSE IF ~PyInt(Slice(holiday_date, 0, 4)).ok THEN "raise"
        ELSE IF PyInt(Slice(holiday_date, 0, 4)).n # PyInt(year).n THEN "skip"
        ELSE "keep"

\* one entry of the Nager.Date loop
NagerEntry(entry, month) ==
    LET holiday_date == DictGet(entry, "date", <<>>)
    IN  IF Len(holiday_date) = 0 THEN "skip"
        ELSE IF ~PyInt(Slice(holiday_date, 5, 7)).ok THEN "raise"
        ELSE IF PyInt(Slice(holiday_date, 5, 7)).n # PyInt(month).n THEN "skip"
        ELSE "keep"

\* one entry of the OpenHolidaysAPI loop: entry['name'][0]['text'] raises
\* KeyError when the first name object has no text
OpenEntry(entry) ==
    LET name == DictGet(entry, "name", <<>>)
        startDate == DictGet(entry, "startDate", <<>>)
    IN  IF Len(name) = 0 \/ Len(startDate) = 0 THEN "skip"
        ELSE IF "text" \notin DOMAIN name[1] THEN "raise"
        ELSE "keep"

\* the holidays appended by a for loop, from its entries' verdicts
RECURSIVE KeptHolidays(_)
KeptHolidays(steps) ==
    IF Len(steps) = 0 THEN <<>>
    ELSE (IF Head(steps).verdict = "keep" THEN <<Head(steps).holiday>> ELSE <<>>)
         \o KeptHolidays(Tail(steps))

\* the for loops of the adapters: the holidays kept, or the exception of
\* the first entry that raises
AdapterLoop(steps) ==
    IF \E i \in 1..Len(steps) : steps[i].verdict = "raise" THEN Raised
    ELSE [raised |-> FALSE, list |-> KeptHolidays(steps)]

\* the holiday of an entry that is not kept
NoHoliday == [date |-> <<>>, name |-> ""]

_get_from_ninjas(upstream, year, month) ==
    LET data == _get_from_api(upstream)
        step(e) ==
            [verdict |-> NinjasEntry(e, year, month),
             holiday |-> IF NinjasEntry(e, year, month) = "keep"
                         THEN [date |-> e.date,
                               name |-> DictGet(e, "holiday_name", "Unknown Holiday")]
                         ELSE NoHoliday]
    IN  IF data.t # "dict" THEN NoList
        ELSE IF "non_working_days" \notin DOMAIN data.v THEN NoList
        ELSE AdapterLoop([i \in 1..Len(data.v.non_working_days) |->
                             step(data.v.non_working_days[i])])

_get_from_nager(upstream, month) ==
    LET data == _get_from_api(upstream)
        step(e) ==
            [verdict |-> NagerEntry(e, month),
             holiday |-> IF NagerEntry(e, month) = "keep"
                         THEN [date |-> e.date, name |-> DictGet(e, "name", "Unknown Holiday")]
                         ELSE NoHoliday]
    IN  IF data.t # "list" THEN NoList
        ELSE AdapterLoop([i \in 1..Len(data.v) |-> step(data.v[i])])

_get_from_openholidays(upstream) ==
    LET data == _get_from_api(upstream)
        step(e) ==
            [verdict |-> OpenEntry(e),
             holiday |-> IF OpenEntry(e) = "keep"
                         THEN [date |-> e.startDate, name |-> e.name[1].text]
                         ELSE NoHoliday]
    IN  IF data.t # "list" THEN NoList
        ELSE AdapterLoop([i \in 1..Len(data.v) |-> step(data.v[i])])

NetworkFailure == [t |-> "fail", v |-> <<>>]

\* upstream responses of API-Ninjas
NinjasUpstream ==
    { NetworkFailure,
      [t |-> "dict", v |-> [error |-> "quota"]],
      [t |-> "dict", v |-> [non_working_days |->
          << [date |-> D28, reasons |-> <<"weekend">>],
             [date |-> D1111, reasons |-> <<"holiday">>, holiday_name |-> "Armistice"],
             [date |-> D23, reasons |-> <<"holiday">>, holiday_name |-> "Christmas"],
             [reasons |-> <<"holiday">>],
             [date |-> D25, reasons |-> <<"holiday">>, holiday_name |-> "Christmas"] >>]],
      [t |-> "dict", v |-> [non_working_days |->
          << [date |-> DDots, reasons |-> <<"holiday">>, holiday_name |-> "Christmas"] >>]],
      [t |-> "dict", v |-> [non_working_days |->
          << [date |-> DShort, reasons |-> <<"holiday">>] >>]] }

\* upstream responses of Nager.Date
NagerUpstream ==
    { NetworkFailure,
      [t |-> "dict", v |-> [status |-> "404"]],
      PyList(<< [date |-> D1111, name |-> "Armistice"], [name |-> "Undated"],
                [date |-> D25, name |-> "Noel"] >>),
      PyList(<< [date |-> DShort, name |-> "Christmas"] >>) }

\* upstream responses of OpenHolidaysAPI
OpenUpstream ==
    { NetworkFailure,
      PyList(<< [name |-> <<>>, startDate |-> D25], [name |-> <<[text |-> "Undated"]>>] >>),
      PyList(<< [name |-> <<[language |-> "EN", text |-> "Christmas Day"]>>, startDate |-> D25] >>),
      PyList(<< [name |-> <<[language |-> "EN"]>>, startDate |-> D25] >>) }

NinjasChristmas ==
    CHOOSE n \in NinjasUpstream : n.t = "dict" /\ "non_working_days" \in DOMAIN n.v
                                  /\ Len(n.v.non_working_days) > 1

\* the responses of the three sources to one unit: API-Ninjas or
\* OpenHolidaysAPI answering while the other two are unreachable, and
\* Nager.Date answering next to API-Ninjas
UpstreamCases ==
    {<<n, NetworkFailure, NetworkFailure>> : n \in NinjasUpstream}
    \cup {<<NinjasChristmas, g, NetworkFailure>> : g \in NagerUpstream}
    \cup {<<NetworkFailure, NetworkFailure, o>> : o \in OpenUpstream}

----------------------------------------------------------------------------
(* LLM calls *)

\* attempts of utils.retry_on_exception
MaxAttempts == 3

LowerChar(c) ==
    CASE c = "T" -> "t" [] c = "R" -> "r" [] c = "U" -> "u" [] c = "E" -> "e"
      [] c = "F" -> "f" [] c = "A" -> "a" [] c = "L" -> "l" [] c = "S" -> "s"
      [] c = "N" -> "n" [] c = "O" -> "o" [] c = "Y" -> "y"
      [] OTHER -> c

\* str.lower()
Lower(s) == [i \in 1..Len(s) |-> LowerChar(s[i])]

\* str(x) of a decoded JSON scalar
PyToStr(x) ==
    CASE x.t = "str" -> x.v
      [] x.t = "none" -> <<"N","o","n","e">>
      [] x.t = "bool" -> (IF x.v THEN <<"T","r","u","e">> ELSE <<"F","a","l","s","e">>)
      [] x.t = "num" -> (IF x.v = 1 THEN <<"1">> ELSE <<"0">>)

\* a test that accepts the boolean only
BooleanTrueOnly(flag) == flag = PyBool(TRUE)

\* the test of is_holiday_flag in process_holidays_for_period
IsHolidayFlagSet(flag) ==
    Lower(PyToStr(flag)) = <<"t","r","u","e">> \/ flag = PyBool(TRUE)

\* values of is_holiday in a checker response; Absent is a response
\* without the field
FlagValues ==
    { PyBool(TRUE), PyStr(<<"T","r","U","E">>),
      PyBool(FALSE), PyNone, Absent, PyNum(1), PyStr(<<"y","e","s">>) }

\* total_tokens of a completion: a number, or null
TokenValues == {PyNum(1), PyNone}

\* the candidates a deduplication response can list
Candidates ==
    { [date |-> PyStr(D25), name |-> "Christmas Day"],
      [date |-> PyStr(D28), name |-> "Boxing Day"],
      [date |-> PyStr(D29), name |-> "Boxing Day"],
      [date |-> PyStr(DDots), name |-> "Boxing Day"],
      [date |-> PyNum(5), name |-> "Boxing Day"] }

IsDict(c) == "t" \notin DOMAIN c

RECURSIVE SeqsUpTo(_, _)
SeqsUpTo(S, n) ==
    IF n = 0 THEN {<<>>}
    ELSE LET shorter == SeqsUpTo(S, n - 1)
         IN  shorter \cup {Append(q, x) : q \in shorter, x \in S}

\* values of the "holidays" field of a deduplication response
HolidaysValues ==
    {Absent, PyNone, PyNum(5)} \cup {PyList(q) : q \in SeqsUpTo(Candidates, MaxCands)}

\* the checker's verified_data for a candidate name
CheckerKeys(name) ==
    { <<"CA", PyStr(D25), name>>, <<"CA", PyStr(D28), name>> }

CheckerRegions == { Absent, PyList(<<"National Holiday">>) }

\* storage failures of a save made by the unit
UnitSaveFailures == {"none", "commit"}

\* the answers to one checker request, with the storage failure met by
\* the save that follows: every verified_data whose is_holiday is true, one
\* verified_data for each other value of is_holiday, and one answer whose
\* usage has no token count
CheckerAnswerCases(name) ==
    {[key |-> k, flag |-> PyBool(TRUE), regs |-> r, tokens |-> PyNum(1), fail |-> x] :
        k \in CheckerKeys(name), r \in CheckerRegions, x \in UnitSaveFailures}
    \cup {[key |-> <<"CA", PyStr(D25), name>>, flag |-> f,
           regs |-> PyList(<<"National Holiday">>), tokens |-> PyNum(1), fail |-> "none"] :
            f \in FlagValues}
    \cup {[key |-> <<"CA", PyStr(D25), name>>, flag |-> PyBool(TRUE),
           regs |-> PyList(<<"National Holiday">>), tokens |-> PyNone, fail |-> "none"]}

----------------------------------------------------------------------------
(* _parse_llm_json_response *)

\* A response text is a sequence of symbols: "{" and "}", "k" for a key
\* with its colon ("a":), "1" for a scalar, " " for white space and "x" for
\* any other character (prose, a Markdown fence).
Symbols == {"{", "}", "k", "1", " ", "x"}

\* str.find(c): the 0-based index of the first c, or -1
Find(s, c) ==
    IF \E i \in 1..Len(s) : s[i] = c
    THEN (CHOOSE i \in 1..Len(s) : s[i] = c /\ \A j \in 1..(i - 1) : s[j] # c) - 1
    ELSE -1

\* str.rfind(c): the 0-based index of the last c, or -1
RFind(s, c) ==
    IF \E i \in 1..Len(s) : s[i] = c
    THEN (CHOOSE i \in 1..Len(s) : s[i] = c /\ \A j \in (i + 1)..Len(s) : s[j] # c) - 1
    ELSE -1

\* str.strip()
RECURSIVE Strip(_)
Strip(s) ==
    IF Len(s) = 0 THEN s
    ELSE IF Head(s) = " " THEN Strip(Tail(s))
    ELSE IF s[Len(s)] = " " THEN Strip(SubSeq(s, 1, Len(s) - 1))
    ELSE s

\* the index of the first symbol at or after i that is not white space
RECURSIVE SkipWs(_, _)
SkipWs(s, i) == IF i <= Len(s) /\ s[i] = " " THEN SkipWs(s, i + 1) ELSE i

NoParse == [ok |-> FALSE, next |-> 0, val |-> PyNone]

\* the JSON decoder on the value that starts at s[i]: an object with at
\* most one member, or a scalar
RECURSIVE DecodeValue(_, _)
DecodeValue(s, i) ==
    IF i > Len(s) THEN NoParse
    ELSE IF s[i] = "1" THEN [ok |-> TRUE, next |-> i + 1, val |-> PyNum(1)]
    ELSE IF s[i] # "{" THEN NoParse
    ELSE LET j == SkipWs(s, i + 1)
         IN  IF j > Len(s) THEN NoParse
             ELSE IF s[j] = "}" THEN [ok |-> TRUE, next |-> j + 1,
                                      val |-> [t |-> "dict", v |-> <<>>]]
             ELSE IF s[j] # "k" THEN NoParse
             ELSE LET m == DecodeValue(s, SkipWs(s, j + 1))
                      e == SkipWs(s, m.next)
                  IN  IF ~m.ok \/ e > Len(s) THEN NoParse
                      ELSE IF s[e] # "}" THEN NoParse
                      ELSE [ok |-> TRUE, next |-> e + 1,
                            val |-> [t |-> "dict", v |-> <<m.val>>]]

\* json.loads: one value, white space around it, nothing else
JsonLoads(s) ==
    LET r == DecodeValue(s, SkipWs(s, 1))
    IN  IF r.ok /\ SkipWs(s, r.next) = Len(s) + 1 THEN r ELSE NoParse

NotParsed == [raised |-> "not_called", value |-> PyNone]
Returns(val) == [raised |-> "none", value |-> val]
Raises(exc) == [raised |-> exc, value |-> PyNone]

\* a try block that cuts the text at the first "}" instead of the last
CutAtFirstClose(text) ==
    IF text.t # "str" THEN Raises("AttributeError")
    ELSE LET json_start_index == Find(text.v, "{")
             json_part == Slice(text.v, json_start_index, Len(text.v))
             json_end_index == Find(json_part, "}")
             clean_json_str == Strip(Slice(json_part, 0, json_end_index + 1))
         IN  IF json_start_index = -1 THEN Raises("InvalidJSONPayloadError")
             ELSE IF json_end_index = -1 THEN Raises("InvalidJSONPayloadError")
             ELSE IF JsonLoads(clean_json_str).ok
                  THEN Returns(JsonLoads(clean_json_str).val)
                  ELSE Raises("JSONDecodeError")

\* the try block of _parse_llm_json_response
ParseTryBlock(text) ==
    IF text.t # "str" THEN Raises("AttributeError")
    ELSE LET json_start_index == Find(text.v, "{")
             json_part == Slice(text.v, json_start_index, Len(text.v))
             json_end_index == RFind(json_part, "}")
             clean_json_str == Strip(Slice(json_part, 0, json_end_index + 1))
         IN  IF json_start_index = -1 THEN Raises("InvalidJSONPayloadError")
             ELSE IF json_end_index = -1 THEN Raises("InvalidJSONPayloadError")
             ELSE IF JsonLoads(clean_json_str).ok
                  THEN Returns(JsonLoads(clean_json_str).val)
                  ELSE Raises("JSONDecodeError")

\* HolidayService._parse_llm_json_response: both except clauses re-raise
\* as InvalidJSONPayloadError
_parse_llm_json_response(text) ==
    LET r == ParseTryBlock(text)
    IN  IF r.raised = "none" THEN r
        ELSE IF r.raised = "JSONDecodeError" THEN Raises("InvalidJSONPayloadError")
        ELSE Raises("InvalidJSONPayloadError")

----------------------------------------------------------------------------
(* process_holidays_for_period *)

vars == <<holidays, regions, lastCall, nSaves, unitVars, restVars>>

NoEvent == [i |-> 0, kind |-> "none", flag |-> PyNone, changed |-> FALSE]

\* the current (or last) call of _get_safe_llm_response: the network
\* requests sent so far by a call that is still running (0 once it has
\* ended), how its last attempt ended ("api_error", "bad_json", "parsed")
\* and how the call ended ("no" while it runs, "returned", or the exception
\* it raised)
NoLLMCall == [requests |-> 0, last |-> "none", ended |-> "no"]

NoRaw == [ninjas_holidays |-> <<>>, nager_holidays |-> <<>>, open_holidays |-> <<>>]

InitService ==
    /\ holidays = {}
    /\ regions = {}
    /\ lastCall = NoCall
    /\ fetched = NoCall
    /\ nSaves = 0
    /\ pc = "idle"
    /\ country_code = "CA"
    /\ raw_holidays = NoRaw
    /\ holidays_to_check = PyList(<<>>)
    /\ idx = 0
    /\ apiAttempt = 0
    /\ safeAttempt = 0
    /\ saveCalls = {}
    /\ lastEvent = NoEvent
    /\ sent = {}
    /\ unitResult = "none"
    /\ store0 = [holidays |-> {}, regions |-> {}]
    /\ grand_total_tokens = 0
    /\ llm_call = NoLLMCall
    /\ parse_result = NotParsed

\* the two units that may save in parallel
Units == {1, 2}

\* a unit that is not inside _save_verified_holiday
NoConnection == [at |-> "idle"]

InitConnections ==
    /\ conn = [u \in Units |-> NoConnection]
    /\ db_lock = 0

\* no request was made
NoResponse == [transport |-> "none"]

NotRequested == [raised |-> "not_called", value |-> PyNone]

InitClient ==
    /\ http_response = NoResponse
    /\ completion = NotRequested

Init ==
    /\ InitService
    /\ response_text = PyNone
    /\ InitConnections
    /\ InitClient

\* COLLECT without the "if not any(...)" exit: deduplication is requested
\* for three empty lists too
CollectWithoutEarlyExit(cc, n_up, g_up, o_up) ==
    /\ pc = "idle"
    /\ LET n == _get_from_ninjas(n_up, UnitYear, UnitMonth)
           g == _get_from_nager(g_up, UnitMonth)
           o == _get_from_openholidays(o_up)
       IN  /\ country_code' = cc
           /\ store0' = [holidays |-> holidays, regions |-> regions]
           /\ IF n.raised \/ g.raised \/ o.raised
              THEN /\ pc' = "raised"
                   /\ unitResult' = "collect_raised"
                   /\ UNCHANGED <<raw_holidays, apiAttempt, safeAttempt>>
              ELSE /\ raw_holidays' = [ninjas_holidays |-> n.list, nager_holidays |-> g.list,
                                       open_holidays |-> o.list]
                   /\ pc' = "dedup"
                   /\ unitResult' = "none"
                   /\ apiAttempt' = 1
                   /\ safeAttempt' = 1
    /\ UNCHANGED <<holidays, regions, lastCall, nSaves, holidays_to_check,
                   idx, saveCalls, lastEvent, sent, grand_total_tokens, llm_call,
                   restVars>>

\* COLLECT: the three adapters in order, then the "if not any(...)" exit
Collect(cc, n_up, g_up, o_up) ==
    /\ pc = "idle"
    /\ LET n == _get_from_ninjas(n_up, UnitYear, UnitMonth)
           g == _get_from_nager(g_up, UnitMonth)
           o == _get_from_openholidays(o_up)
       IN  /\ country_code' = cc
           /\ store0' = [holidays |-> holidays, regions |-> regions]
           /\ IF n.raised \/ g.raised \/ o.raised
              THEN /\ pc' = "raised"
                   /\ unitResult' = "collect_raised"
                   /\ UNCHANGED <<raw_holidays, apiAttempt, safeAttempt>>
              ELSE /\ raw_holidays' = [ninjas_holidays |-> n.list, nager_holidays |-> g.list,
                                       open_holidays |-> o.list]
                   /\ IF Len(n.list) = 0 /\ Len(g.list) = 0 /\ Len(o.list) = 0
                      THEN /\ pc' = "done"
                           /\ unitResult' = "no_data"
                           /\ UNCHANGED <<apiAttempt, safeAttempt>>
                      ELSE /\ pc' = "dedup"
                           /\ unitResult' = "none"
                           /\ apiAttempt' = 1
                           /\ safeAttempt' = 1
    /\ UNCHANGED <<holidays, regions, lastCall, nSaves, holidays_to_check,
                   idx, saveCalls, lastEvent, sent, grand_total_tokens, llm_call,
                   restVars>>

\* what a failed request does to the two nested retry loops: "retry" with
\* new counters, or "give_up" when _get_safe_llm_response re-raises.
\* create_chat_completion retries APIError; _get_safe_llm_response retries
\* APIError and InvalidJSONPayloadError.
AfterFailure(kind) ==
    IF kind = "api_error" /\ apiAttempt < MaxAttempts
    THEN [next |-> "retry", api |-> apiAttempt + 1, safe |-> safeAttempt]
    ELSE IF safeAttempt < MaxAttempts
    THEN [next |-> "retry", api |-> 1, safe |-> safeAttempt + 1]
    ELSE [next |-> "give_up", api |-> 0, safe |-> 0]

\* llm_call after a request whose attempt failed; the exception a
\* call that gives up raises is the one of its last attempt
FailedAttempt(kind, next) ==
    [requests |-> IF next = "give_up" THEN 0 ELSE llm_call.requests + 1,
     last |-> kind,
     ended |-> IF next # "give_up" THEN "no"
               ELSE IF kind = "api_error" THEN "APIError"
               ELSE "InvalidJSONPayloadError"]

\* llm_call after a request whose text parsed
ParsedAttempt == [requests |-> 0, last |-> "parsed", ended |-> "returned"]

\* a deduplication stage whose except clause names APIError only: an
\* InvalidJSONPayloadError left after the retries escapes the unit
DedupCatchesApiErrorOnly(kind) ==
    /\ pc = "dedup"
    /\ LET f == AfterFailure(kind)
       IN  /\ apiAttempt' = f.api
           /\ safeAttempt' = f.safe
           /\ llm_call' = FailedAttempt(kind, f.next)
           /\ IF f.next = "give_up"
              THEN /\ pc' = (IF kind = "bad_json" THEN "raised" ELSE "done")
                   /\ unitResult' = "dedup_failed"
              ELSE UNCHANGED <<pc, unitResult>>
    /\ UNCHANGED <<holidays, regions, lastCall, nSaves, country_code,
                   raw_holidays, holidays_to_check, idx, saveCalls, lastEvent, sent, store0,
                   grand_total_tokens,
                   restVars>>

\* a _get_safe_llm_response that retries APIError only: a text the parser
\* rejects ends the call at once
DedupRetriesApiErrorOnly(kind) ==
    /\ pc = "dedup"
    /\ LET f == IF kind = "bad_json" THEN [next |-> "give_up", api |-> 0, safe |-> 0]
                ELSE AfterFailure(kind)
       IN  /\ apiAttempt' = f.api
           /\ safeAttempt' = f.safe
           /\ llm_call' = FailedAttempt(kind, f.next)
           /\ IF f.next = "give_up"
              THEN pc' = "done" /\ unitResult' = "dedup_failed"
              ELSE UNCHANGED <<pc, unitResult>>
    /\ UNCHANGED <<holidays, regions, lastCall, nSaves, country_code,
                   raw_holidays, holidays_to_check, idx, saveCalls, lastEvent, sent, store0,
                   grand_total_tokens,
                   restVars>>

\* DEDUPLICATE: one request whose attempt fails (APIError, or a text the
\* parser rejects)
DedupFails(kind) ==
    /\ pc = "dedup"
    /\ LET f == AfterFailure(kind)
       IN  /\ apiAttempt' = f.api
           /\ safeAttempt' = f.safe
           /\ llm_call' = FailedAttempt(kind, f.next)
           /\ IF f.next = "give_up"
              THEN pc' = "done" /\ unitResult' = "dedup_failed"
              ELSE UNCHANGED <<pc, unitResult>>
    /\ UNCHANGED <<holidays, regions, lastCall, nSaves, country_code,
                   raw_holidays, holidays_to_check, idx, saveCalls, lastEvent, sent, store0,
                   grand_total_tokens,
                   restVars>>

\* DEDUPLICATE: a request answered with a parsable object; hv is its
\* "holidays" field. The additions to the token counts raise TypeError on
\* a null count, and len(holidays_to_check) raises it on a value that is
\* no list; neither is caught.
DedupAnswers(hv, tokens) ==
    /\ pc = "dedup"
    /\ apiAttempt' = 0
    /\ safeAttempt' = 0
    /\ llm_call' = ParsedAttempt
    /\ IF tokens.t # "num"
       THEN /\ pc' = "raised"
            /\ unitResult' = "telemetry_raised"
            /\ UNCHANGED <<holidays_to_check, idx, grand_total_tokens>>
       ELSE /\ grand_total_tokens' = grand_total_tokens + tokens.v
            /\ holidays_to_check' = (IF hv = Absent THEN PyList(<<>>) ELSE hv)
            /\ IF hv # Absent /\ hv.t # "list"
               THEN pc' = "raised" /\ unitResult' = "dedup_raised" /\ UNCHANGED idx
               ELSE IF hv = Absent \/ ~Truthy(hv)
               THEN pc' = "done" /\ unitResult' = "completed" /\ UNCHANGED idx
               ELSE pc' = "loop" /\ idx' = 1 /\ UNCHANGED unitResult
    /\ UNCHANGED <<holidays, regions, lastCall, nSaves, country_code,
                   raw_holidays, saveCalls, lastEvent, sent, store0,
                   restVars>>

\* what the last step of the loop did with candidate idx, if it settled it: "weekend" (skipped), "exception"
\* (raised before any request), "failed" (retries exhausted),
\* "answer_exception" (raised after the answer, before the decision),
\* "discarded" or "handed" (to _save_verified_holiday)
Event(kind, flag, changed) ==
    [i |-> idx, kind |-> kind, flag |-> flag, changed |-> changed]

\* a loop that takes the same candidate again
StayOnCandidate ==
    /\ idx' = idx
    /\ pc' = "loop"
    /\ UNCHANGED unitResult

\* the loop moves to candidate idx + 1, or the unit ends after the last one
Advance ==
    /\ idx' = idx + 1
    /\ IF idx + 1 > Len(holidays_to_check.v)
       THEN pc' = "done" /\ unitResult' = "completed"
       ELSE pc' = "loop" /\ UNCHANGED unitResult

\* the head of the for loop for candidate idx: the weekend pre-filter
NextCandidate ==
    /\ pc = "loop"
    /\ LET holiday == holidays_to_check.v[idx]
           weekend == IF IsDict(holiday)
                      THEN _is_weekend(DictGet(holiday, "date", PyNone))
                      ELSE "raise"
       IN  IF weekend = "false"
           THEN /\ pc' = "verify"
                /\ holidays_to_check' = PyList([holidays_to_check.v EXCEPT ![idx] =
                       [k \in DOMAIN holiday \cup {"region_context"} |->
                           IF k = "region_context" THEN country_code ELSE holiday[k]]])
                /\ apiAttempt' = 1
                /\ safeAttempt' = 1
                /\ lastEvent' = NoEvent
                /\ UNCHANGED <<idx, unitResult>>
           ELSE /\ lastEvent' = Event(IF weekend = "true" THEN "weekend"
                                      ELSE "exception", PyNone, FALSE)
                /\ Advance
                /\ UNCHANGED <<apiAttempt, safeAttempt, holidays_to_check>>
    /\ lastCall' = NoCall
    /\ llm_call' = NoLLMCall
    /\ UNCHANGED <<holidays, regions, nSaves, country_code,
                   raw_holidays, saveCalls, sent, store0, grand_total_tokens,
                   restVars>>

\* a loop without the except clauses: a request left failing after the
\* retries ends the unit with the exception
CheckerFailureEscapes(kind) ==
    /\ pc = "verify"
    /\ sent' = sent \cup {idx}
    /\ LET f == AfterFailure(kind)
       IN  /\ apiAttempt' = f.api
           /\ safeAttempt' = f.safe
           /\ llm_call' = FailedAttempt(kind, f.next)
           /\ IF f.next = "give_up"
              THEN /\ lastEvent' = Event("failed", PyNone, FALSE)
                   /\ pc' = "raised"
                   /\ unitResult' = "loop_raised"
                   /\ UNCHANGED idx
              ELSE lastEvent' = NoEvent /\ UNCHANGED <<idx, pc, unitResult>>
    /\ lastCall' = NoCall
    /\ UNCHANGED <<holidays, regions, nSaves, country_code,
                   raw_holidays, holidays_to_check, saveCalls, store0,
                   grand_total_tokens,
                   restVars>>

\* VERIFY: one checker request whose attempt fails
CheckerFails(kind) ==
    /\ pc = "verify"
    /\ sent' = sent \cup {idx}
    /\ LET f == AfterFailure(kind)
       IN  /\ apiAttempt' = f.api
           /\ safeAttempt' = f.safe
           /\ llm_call' = FailedAttempt(kind, f.next)
           /\ IF f.next = "give_up"
              THEN /\ lastEvent' = Event("failed", PyNone, FALSE)
                   /\ Advance
              ELSE lastEvent' = NoEvent /\ UNCHANGED <<idx, pc, unitResult>>
    /\ lastCall' = NoCall
    /\ UNCHANGED <<holidays, regions, nSaves, country_code,
                   raw_holidays, holidays_to_check, saveCalls, store0,
                   grand_total_tokens,
                   restVars>>

\* VERIFY: a checker request answered with a parsable object, then
\* SAVE-or-DISCARD
CheckerAnswers(key, flag, regs, tokens, fail) ==
    /\ pc = "verify"
    /\ sent' = sent \cup {idx}
    /\ Advance
    /\ IF tokens.t # "num"
       THEN /\ lastEvent' = Event("answer_exception", PyNone, FALSE)
            /\ lastCall' = NoCall
            /\ UNCHANGED <<holidays, regions, saveCalls, grand_total_tokens>>
       ELSE /\ grand_total_tokens' = grand_total_tokens + tokens.v
            /\ IF IsHolidayFlagSet(IF flag = Absent THEN PyNone ELSE flag)
               THEN LET verified_data == HolidayData(key, regs, flag)
                        res == _save_verified_holiday(holidays, regions, country_code,
                                                      verified_data, fail)
                    IN  /\ holidays' = res.holidays
                        /\ regions' = res.regions
                        /\ lastCall' = [op |-> "save", country_code |-> country_code,
                                        data |-> verified_data, outcome |-> res.outcome,
                                        fail |-> fail,
                                        before |-> [holidays |-> holidays,
                                                    regions |-> regions]]
                        /\ saveCalls' = saveCalls \cup {idx}
                        /\ lastEvent' = Event("handed", flag,
                               res.holidays # holidays \/ res.regions # regions)
               ELSE /\ lastEvent' = Event("discarded", flag, FALSE)
                    /\ lastCall' = NoCall
                    /\ UNCHANGED <<holidays, regions, saveCalls>>
    /\ apiAttempt' = 0
    /\ safeAttempt' = 0
    /\ llm_call' = ParsedAttempt
    /\ UNCHANGED <<nSaves, country_code, raw_holidays, holidays_to_check,
                   store0,
                   restVars>>

\* the name of the candidate being verified, which the checker is told to
\* keep in its answer
CandidateName ==
    IF pc = "verify"
    THEN DictGet(holidays_to_check.v[idx], "name", "Unknown Holiday")
    ELSE "Unknown Holiday"

\* a call of get_holidays_for_date once the unit has returned; fetched
\* keeps the date, the storage failure it met and the mapping it returned
FetchAfterUnit(target_date, fail) ==
    /\ pc = "done"
    /\ fetched' = [op |-> "fetch", date |-> target_date, failed |-> fail,
                   result |-> get_holidays_for_date(holidays, regions, target_date, fail)]
    /\ UNCHANGED <<holidays, regions, lastCall, nSaves, unitVars, parserVars,
                   concVars, clientVars>>

Next ==
    \/ \E up \in UpstreamCases : Collect("CA", up[1], up[2], up[3])
    \/ \E kind \in {"api_error", "bad_json"} : DedupFails(kind)
    \/ \E hv \in HolidaysValues, tokens \in TokenValues : DedupAnswers(hv, tokens)
    \/ NextCandidate
    \/ \E kind \in {"api_error", "bad_json"} : CheckerFails(kind)
    \/ \E a \in CheckerAnswerCases(CandidateName) :
          CheckerAnswers(a.key, a.flag, a.regs, a.tokens, a.fail)
    \/ \E fail \in BOOLEAN : FetchAfterUnit(D25, fail)

Spec == Init /\ [][Next]_vars

NextStore ==
    \/ \E c \in SaveCases : Save(c.key, c.regs, c.fail)
    \/ \E d \in FetchDates, fail \in BOOLEAN : Fetch(d, fail)

\* the texts handed to the parser: a missing content, and every text of at
\* most MaxText symbols
ResponseTexts == {PyNone} \cup {PyStr(q) : q \in SeqsUpTo(Symbols, MaxText)}

InitParser ==
    /\ InitService
    /\ response_text \in ResponseTexts
    /\ InitConnections
    /\ InitClient

Parse ==
    /\ parse_result = NotParsed
    /\ parse_result' = _parse_llm_json_response(response_text)
    /\ UNCHANGED <<response_text, holidays, regions, lastCall, nSaves, unitVars, fetched,
                   concVars, clientVars>>

NextParser == Parse

SpecParser == InitParser /\ [][NextParser]_vars

SpecStore == Init /\ [][NextStore]_vars

----------------------------------------------------------------------------
(* Two units saving the same holiday in parallel *)

\* the region lists of the two saves; every two of them share "Ontario"
ParallelRegionLists ==
    { <<"Quebec", "Ontario">>, <<"Ontario", "Alberta">>, <<"Ontario">> }

ParallelKey == <<"CA", PyStr(D25), "Christmas Day">>

\* unit u has called _save_verified_holiday with holiday_data
Called(holiday_data) ==
    [at |-> "called", data |-> holiday_data, hs |-> {}, rs |-> {}, holiday_id |-> 0,
     outcome |-> "none"]

InitParallel ==
    /\ InitService
    /\ response_text = PyNone
    /\ InitClient
    /\ db_lock = 0
    /\ \E q1, q2 \in ParallelRegionLists :
          conn = [u \in Units |->
                    Called(HolidayData(ParallelKey, PyList(IF u = 1 THEN q1 ELSE q2),
                                       PyBool(TRUE)))]

\* the call of unit u has returned
ConnReturned(u, outcome) ==
    [conn EXCEPT ![u].at = "returned", ![u].outcome = outcome]

\* INSERT OR IGNORE INTO holidays: the first write of the connection opens
\* its transaction and takes the write lock of the file, which it keeps
\* until COMMIT or ROLLBACK; it is granted only while no other connection
\* holds it
ConnInsertHoliday(u) ==
    /\ conn[u].at = "called"
    /\ IF ~HasRequiredKeys(conn[u].data)
       THEN /\ conn' = ConnReturned(u, "key_error")
            /\ UNCHANGED db_lock
       ELSE /\ db_lock = 0
            /\ db_lock' = u
            /\ conn' = [conn EXCEPT
                  ![u].at = "inserted",
                  ![u].hs = InsertOrIgnoreHoliday(holidays, "CA", conn[u].data.date,
                                                  conn[u].data.name),
                  ![u].rs = regions]
    /\ UNCHANGED <<holidays, regions, lastCall, nSaves, unitVars, parserVars, fetched,
                   clientVars>>

\* the write lock is still held by the other connection when the busy
\* timeout of sqlite3.connect (5 seconds by default) runs out: the INSERT
\* raises sqlite3.OperationalError, which the except clause logs
ConnLockTimeout(u) ==
    /\ conn[u].at = "called"
    /\ HasRequiredKeys(conn[u].data)
    /\ db_lock \notin {0, u}
    /\ conn' = ConnReturned(u, "sqlite_error")
    /\ UNCHANGED <<holidays, regions, db_lock, lastCall, nSaves, unitVars, parserVars,
                   fetched, clientVars>>

\* SELECT id FROM holidays WHERE ...; without a row the method returns and
\* the with-block commits
ConnSelectId(u) ==
    /\ conn[u].at = "inserted"
    /\ LET found == SelectHolidayId(conn[u].hs, "CA", conn[u].data.date, conn[u].data.name)
       IN  IF found = {}
           THEN /\ conn' = ConnReturned(u, "not_found")
                /\ db_lock' = 0
           ELSE /\ conn' = [conn EXCEPT ![u].at = "selected",
                                        ![u].holiday_id = Max({h.id : h \in found})]
                /\ UNCHANGED db_lock
    /\ UNCHANGED <<holidays, regions, lastCall, nSaves, unitVars, parserVars, fetched,
                   clientVars>>

\* the sentinel test and executemany over regions_to_insert
ConnInsertRegions(u) ==
    /\ conn[u].at = "selected"
    /\ LET regs == DictGet(conn[u].data, "regions", PyList(<<>>))
       IN  IF NoRegionRestriction(regs)
           THEN /\ conn' = [conn EXCEPT ![u].at = "closing"]
                /\ UNCHANGED db_lock
           ELSE IF regs.t # "list"
           THEN /\ conn' = ConnReturned(u, "type_error")
                /\ db_lock' = 0
           ELSE /\ conn' = [conn EXCEPT
                      ![u].at = "closing",
                      ![u].rs = ExecuteManyRegions(conn[u].rs, conn[u].holiday_id, regs.v)]
                /\ UNCHANGED db_lock
    /\ UNCHANGED <<holidays, regions, lastCall, nSaves, unitVars, parserVars, fetched,
                   clientVars>>

\* COMMIT: the rows of the transaction reach the file and the lock is freed
ConnCommit(u) ==
    /\ conn[u].at = "closing"
    /\ holidays' = conn[u].hs
    /\ regions' = conn[u].rs
    /\ db_lock' = 0
    /\ conn' = ConnReturned(u, "saved")
    /\ UNCHANGED <<lastCall, nSaves, unitVars, parserVars, fetched, clientVars>>

NextParallel ==
    \/ \E u \in Units : ConnInsertHoliday(u)
    \/ \E u \in Units : ConnLockTimeout(u)
    \/ \E u \in Units : ConnSelectId(u)
    \/ \E u \in Units : ConnInsertRegions(u)
    \/ \E u \in Units : ConnCommit(u)

SpecParallel == InitParallel /\ [][NextParallel]_vars


----------------------------------------------------------------------------
(* OpenRouterClient.create_chat_completion, one attempt *)

PyFloat(x) == [t |-> "float", v |-> x]

\* the dict {} that json_response.get('usage', {}) falls back to
EmptyDict == [k \in {} |-> PyNone]

Content == PyStr(<<"{", "k", "1", "}">>)

\* values of "message" in the first choice; Absent is a choice without it
MessageValues ==
    { Absent, PyNone,
      [role |-> "assistant"],
      [role |-> "assistant", content |-> PyNone],
      [role |-> "assistant", content |-> Content] }

\* values of "choices" in the envelope; Absent is an envelope without it
ChoicesValues ==
    { Absent, PyNone, PyList(<<>>), PyNum(5), PyList(<<PyNum(1)>>) }
    \cup { PyList(<<IF m = Absent THEN [index |-> 0]
                    ELSE [index |-> 0, message |-> m]>>) : m \in MessageValues }

\* values of "usage" in the envelope; Absent is an envelope without it
UsageValues ==
    { Absent, PyNone, PyList(<<>>),
      [prompt_tokens |-> PyNum(4)],
      [prompt_tokens |-> PyNum(4), total_tokens |-> PyNum(7)],
      [prompt_tokens |-> PyNum(4), cost |-> PyFloat(2)],
      [prompt_tokens |-> PyNum(4), total_tokens |-> PyNum(7), cost |-> PyFloat(2)],
      [prompt_tokens |-> PyNum(4), total_tokens |-> PyNone] }

\* the decoded body of a response
Envelope(choices, usage) ==
    LET e0 == [id |-> "gen-1"]
        e1 == IF choices = Absent THEN e0
              ELSE [k \in DOMAIN e0 \cup {"choices"} |->
                       IF k = "choices" THEN choices ELSE e0[k]]
    IN  IF usage = Absent THEN e1
        ELSE [k \in DOMAIN e1 \cup {"usage"} |-> IF k = "usage" THEN usage ELSE e1[k]]

\* what requests.post and response.raise_for_status() meet: a network
\* error or timeout, a status that raise_for_status rejects (4xx, 5xx), or
\* a response with a body: text that is not JSON, a JSON array, an object
HttpResponses ==
    { [transport |-> "network_error", body |-> PyNone],
      [transport |-> "http_error", body |-> PyNone],
      [transport |-> "ok", body |-> [t |-> "not_json", v |-> 0]],
      [transport |-> "ok", body |-> PyList(<<>>)] }
    \cup { [transport |-> "ok", body |-> Envelope(c, u)] :
              c \in ChoicesValues, u \in UsageValues }

\* the try block of create_chat_completion (lines 49-66): the dict it
\* returns, or the exception raised inside it
CompletionTryBlock(resp) ==
    IF resp.transport = "network_error" THEN Raises("ConnectionError")
    ELSE IF resp.transport = "http_error" THEN Raises("HTTPError")
    ELSE LET json_response == resp.body
         IN  IF ~IsDict(json_response)
             THEN (IF json_response.t = "not_json" THEN Raises("JSONDecodeError")
                   ELSE Raises("AttributeError"))
             ELSE LET choices == DictGet(json_response, "choices", PyNone)
                  IN  IF ~Truthy(choices) THEN Raises("APIError")
                      ELSE IF choices.t # "list" THEN Raises("TypeError")
                      ELSE LET first == choices.v[1]
                           IN  IF ~IsDict(first) THEN Raises("TypeError")
                               ELSE IF "message" \notin DOMAIN first THEN Raises("KeyError")
                               ELSE IF ~IsDict(first.message) THEN Raises("TypeError")
                               ELSE IF "content" \notin DOMAIN first.message
                                    THEN Raises("KeyError")
                               ELSE LET usage == DictGet(json_response, "usage", EmptyDict)
                                    IN  IF ~IsDict(usage) THEN Raises("AttributeError")
                                        ELSE Returns(
                                            [result |-> first.message.content,
                                             tokens |-> DictGet(usage, "total_tokens", PyNum(0)),
                                             price |-> DictGet(usage, "cost", PyFloat(0))])

\* subclasses of requests.exceptions.RequestException
RequestExceptions == {"ConnectionError", "HTTPError", "JSONDecodeError"}

\* an attempt without the "except Exception" clause: only the errors of
\* requests become APIError
CompletionWithoutCatchAll(resp) ==
    LET r == CompletionTryBlock(resp)
    IN  IF r.raised \in RequestExceptions THEN Raises("APIError") ELSE r

\* create_chat_completion below its decorator: the three except clauses
\* (lines 68-73) turn every exception of the try block into APIError
create_chat_completion(resp) ==
    LET r == CompletionTryBlock(resp)
    IN  IF r.raised = "none" THEN r ELSE Raises("APIError")

InitAttempt ==
    /\ InitService
    /\ response_text = PyNone
    /\ InitConnections
    /\ http_response \in HttpResponses
    /\ completion = NotRequested

\* one attempt on the response the request met
Attempt ==
    /\ completion = NotRequested
    /\ completion' = create_chat_completion(http_response)
    /\ UNCHANGED <<http_response, holidays, regions, lastCall, nSaves, unitVars,
                   parserVars, fetched, concVars>>

NextClient == Attempt

SpecClient == InitAttempt /\ [][NextClient]_vars


----------------------------------------------------------------------------
(* Properties of the store *)

\* the last call was a save that reached its end: no storage error, no
\* missing key, a holiday row found
SaveDone == lastCall.op = "save" /\ lastCall.outcome \in {"saved", "saved_no_regions"}

LastRegs == DictGet(lastCall.data, "regions", Absent)

\* the regions values the specification calls "no region restriction"
SpecSentinels ==
    {Absent, PyList(<<>>), PyList(<<"All">>), PyList(<<"National Holiday">>)}

\* the region list fetched for one holiday, <<>> when the holiday is not
\* in the result
FetchedRegions(hs, rs, cc, date, name) ==
    LET res == get_holidays_for_date(hs, rs, date, FALSE)
    IN  IF cc \in DOMAIN res /\ name \in DOMAIN res[cc] THEN res[cc][name] ELSE <<>>

IsFetched(hs, rs, cc, date, name) ==
    LET res == get_holidays_for_date(hs, rs, date, FALSE)
    IN  cc \in DOMAIN res /\ name \in DOMAIN res[cc]

NoDuplicates(seq) == Cardinality(Range(seq)) = Len(seq)

\* C1: a save whose regions value is ["National Holiday"], empty, absent or
\* ["All"], of a holiday that had no region rows, writes the holiday row and
\* no region row, and a fetch on its date maps the holiday name to the empty
\* list.
C1_SentinelWritesNoRegions ==
    (/\ SaveDone
     /\ LastRegs \in SpecSentinels
     /\ FetchedRegions(lastCall.before.holidays, lastCall.before.regions,
            lastCall.country_code, lastCall.data.date.v, lastCall.data.name) = <<>>)
    => /\ regions = lastCall.before.regions
       /\ HolidayRows(holidays, lastCall.country_code, lastCall.data.date.v,
                      lastCall.data.name) # {}
       /\ IsFetched(holidays, regions, lastCall.country_code,
                    lastCall.data.date.v, lastCall.data.name)
       /\ FetchedRegions(holidays, regions, lastCall.country_code,
                         lastCall.data.date.v, lastCall.data.name) = <<>>

\* C2: the store holds at most one holiday row per (country_code, date,
\* name) and at most one region row per (holiday, region_name); after a
\* save of a triple exactly one holiday row has it, and exactly one region
\* row has each saved (holiday, region), also when it was saved before.
C2_IdempotentPersistence ==
    /\ \A h1, h2 \in holidays :
          (/\ h1.country_code = h2.country_code
           /\ h1.holiday_date = h2.holiday_date
           /\ h1.holiday_name = h2.holiday_name) => h1 = h2
    /\ \A r1, r2 \in regions :
          (r1.holiday_id = r2.holiday_id /\ r1.region_name = r2.region_name) => r1 = r2
    /\ \A h1, h2 \in holidays : h1.id = h2.id => h1 = h2
    /\ SaveDone =>
          LET rows == HolidayRows(holidays, lastCall.country_code,
                                  lastCall.data.date.v, lastCall.data.name)
          IN  /\ Cardinality(rows) = 1
              /\ lastCall.outcome = "saved" =>
                    \A n \in Range(LastRegs.v) :
                        Cardinality({r \in regions : /\ r.region_name = n
                                                     /\ \E h \in rows : r.holiday_id = h.id}) = 1

\* the last save repeated a triple and a region that were already stored
C2_Witness ==
    /\ SaveDone
    /\ lastCall.outcome = "saved"
    /\ HolidayRows(lastCall.before.holidays, lastCall.country_code,
                   lastCall.data.date.v, lastCall.data.name) # {}
    /\ \E r \in lastCall.before.regions : r.region_name \in Range(LastRegs.v)
    /\ holidays = lastCall.before.holidays
    /\ Cardinality(holidays) = 1

\* C9: a save with a non-sentinel list of (non-empty) region names makes
\* the fetch on its date return, for that holiday, the regions fetched
\* before the save together with exactly the names of the list, each once;
\* for a holiday saved for the first time these are exactly the list's names.
C9_RegionRoundTrip ==
    (/\ SaveDone
     /\ LastRegs \notin SpecSentinels
     /\ LastRegs.t = "list"
     /\ "" \notin Range(LastRegs.v))
    => LET cc == lastCall.country_code
           d == lastCall.data.date.v
           n == lastCall.data.name
           was == FetchedRegions(lastCall.before.holidays, lastCall.before.regions, cc, d, n)
           now == FetchedRegions(holidays, regions, cc, d, n)
       IN  /\ IsFetched(holidays, regions, cc, d, n)
           /\ Range(now) = Range(was) \cup Range(LastRegs.v)
           /\ NoDuplicates(now)
           /\ \A c2 \in CountryCodes, d2 \in FetchDates, n2 \in {"Christmas Day", "Boxing Day"} :
                 <<c2, d2, n2>> # <<cc, d, n>> =>
                    FetchedRegions(holidays, regions, c2, d2, n2) =
                    FetchedRegions(lastCall.before.holidays, lastCall.before.regions, c2, d2, n2)

\* a second save of a holiday added Ontario to the Quebec it already had
C9_Witness ==
    /\ SaveDone
    /\ LastRegs = PyList(<<"Quebec", "Ontario", "Quebec">>)
    /\ Range(FetchedRegions(lastCall.before.holidays, lastCall.before.regions,
                lastCall.country_code, lastCall.data.date.v, lastCall.data.name))
          = {"Quebec"}
    /\ Len(FetchedRegions(holidays, regions, lastCall.country_code,
                lastCall.data.date.v, lastCall.data.name)) = 2

\* C11: a save whose data lacks the date or the name field raises nothing
\* (the KeyError is caught and logged) and leaves both tables exactly as
\* they were before the call.
C11_MissingFieldNoWrite ==
    (/\ lastCall.op = "save"
     /\ ("date" \notin DOMAIN lastCall.data \/ "name" \notin DOMAIN lastCall.data))
    => /\ lastCall.outcome \in {"key_error", "sqlite_error"}
       /\ holidays = lastCall.before.holidays
       /\ regions = lastCall.before.regions

\* a save without a name was made on a store that already held rows
C11_Witness ==
    /\ lastCall.op = "save"
    /\ "name" \notin DOMAIN lastCall.data
    /\ "date" \in DOMAIN lastCall.data
    /\ lastCall.outcome = "key_error"
    /\ holidays # {}
    /\ regions # {}

\* the store holds everything the save of lastCall was given: the rows of
\* before the call, one holiday row for its key, and for a region list
\* that is not a sentinel one region row of that holiday for each name of
\* the list, and nothing else
SaveIsComplete ==
    /\ HasRequiredKeys(lastCall.data)
    /\ lastCall.data.date.t = "str"
    /\ LET b == lastCall.before
           rows == HolidayRows(holidays, lastCall.country_code, lastCall.data.date.v,
                               lastCall.data.name)
           regs == DictGet(lastCall.data, "regions", PyList(<<>>))
           added == regions \ b.regions
       IN  /\ Cardinality(rows) = 1
           /\ b.holidays \subseteq holidays
           /\ holidays \ b.holidays \subseteq rows
           /\ b.regions \subseteq regions
           /\ IF NoRegionRestriction(regs) THEN added = {}
              ELSE /\ regs.t = "list"
                   /\ \A name \in Range(regs.v) :
                         \E r \in regions, h \in rows :
                            r.holiday_id = h.id /\ r.region_name = name
                   /\ \A r \in added :
                         /\ \E h \in rows : r.holiday_id = h.id
                         /\ r.region_name \in Range(regs.v)

\* the store is as it was before the save of lastCall
SaveWroteNothing ==
    /\ holidays = lastCall.before.holidays
    /\ regions = lastCall.before.regions

\* C22: a call of _save_verified_holiday is all-or-nothing: after it the
\* holiday row and every region row of its region list are stored, or the
\* store is exactly as before the call; a call that met a storage error,
\* at whatever statement, leaves the store as before, and a call that met
\* none and found its holiday row leaves everything stored.
C22_AllOrNothing ==
    lastCall.op = "save" =>
        /\ SaveIsComplete \/ SaveWroteNothing
        /\ lastCall.outcome = "sqlite_error" => SaveWroteNothing
        /\ lastCall.outcome \in {"saved", "saved_no_regions"} => SaveIsComplete
        /\ lastCall.outcome \in {"saved", "saved_no_regions", "sqlite_error", "key_error",
                                 "not_found", "type_error"}

\* executemany failed in a save of a new holiday with two regions into a
\* store that already held rows, and the store is as before
C22_Witness ==
    /\ lastCall.op = "save"
    /\ lastCall.fail = "regions"
    /\ lastCall.outcome = "sqlite_error"
    /\ lastCall.before.holidays # {}
    /\ HolidayRows(lastCall.before.holidays, lastCall.country_code,
                   lastCall.data.date.v, lastCall.data.name) = {}
    /\ Cardinality(Range(lastCall.data.regions.v)) = 2
    /\ SaveWroteNothing


----------------------------------------------------------------------------
(* Properties of process_holidays_for_period *)

Cands == IF holidays_to_check.t = "list" THEN holidays_to_check.v ELSE <<>>

\* 28 and 29 December 2024 are a Saturday and a Sunday
FallsOnWeekend(c) ==
    IsDict(c) /\ "date" \in DOMAIN c /\ c.date \in {PyStr(D28), PyStr(D29)}

\* C3: a candidate dated on a Saturday or Sunday is never sent to the
\* checker and never handed to _save_verified_holiday; the loop settles it
\* as skipped, writes nothing and moves on to the next candidate.
C3_WeekendSkip ==
    \A i \in 1..Len(Cands) :
        FallsOnWeekend(Cands[i]) =>
            /\ i \notin sent
            /\ i \notin saveCalls
            /\ ~(pc = "verify" /\ idx = i)
            /\ lastEvent.i = i =>
                  /\ lastEvent.kind = "weekend"
                  /\ ~lastEvent.changed
                  /\ lastCall = NoCall
                  /\ idx = i + 1
                  /\ pc = (IF i < Len(Cands) THEN "loop" ELSE "done")

\* a Saturday candidate was skipped and the candidate after it was sent
C3_Witness ==
    /\ Len(Cands) = 2
    /\ "date" \in DOMAIN Cands[1]
    /\ Cands[1].date = PyStr(D28)
    /\ sent = {2}
    /\ pc = "done"

\* C4: when the deduplication call has failed after all its retries, the
\* unit has returned without raising, no candidate was sent to the checker,
\* no save was called and the tables are as they were when the unit began.
C4_FailClosedDedup ==
    unitResult = "dedup_failed" =>
        /\ pc = "done"
        /\ sent = {}
        /\ saveCalls = {}
        /\ Cands = <<>>
        /\ holidays = store0.holidays
        /\ regions = store0.regions

C4_Witness ==
    /\ unitResult = "dedup_failed"
    /\ pc = "done"
    /\ raw_holidays # NoRaw

\* C5: a candidate whose verification fails (retries exhausted, or any
\* other exception while it is handled) does not abort the unit: the loop
\* is at the next candidate, or the unit has completed if it was the last;
\* the unit never raises once the loop has begun, and a completed unit has
\* gone through the whole list.
C5_FailureIsolation ==
    /\ lastEvent.kind \in {"failed", "exception", "answer_exception"} =>
          /\ idx = lastEvent.i + 1
          /\ lastEvent.i < Len(Cands) => pc = "loop"
          /\ lastEvent.i = Len(Cands) => pc = "done" /\ unitResult = "completed"
    /\ pc = "raised" => idx = 0 /\ sent = {}
    /\ idx > 0 => pc \in {"loop", "verify", "done"}
    /\ (unitResult = "completed" /\ Len(Cands) > 0) => idx = Len(Cands) + 1
    /\ lastEvent.kind # "none" => idx = lastEvent.i + 1

\* the first candidate failed after all retries and the loop is at the second
C5_Witness ==
    /\ lastEvent.kind = "failed"
    /\ lastEvent.i = 1
    /\ pc = "loop"
    /\ idx = 2

\* the values of is_holiday the claim accepts: the boolean true, or a
\* string that is "true" in any letter case
TrueIgnoringCase(flag) ==
    \/ flag = PyBool(TRUE)
    \/ /\ flag.t = "str"
       /\ Len(flag.v) = 4
       /\ flag.v[1] \in {"t", "T"}
       /\ flag.v[2] \in {"r", "R"}
       /\ flag.v[3] \in {"u", "U"}
       /\ flag.v[4] \in {"e", "E"}

\* C6: a checker response that reaches the decision is handed to
\* _save_verified_holiday exactly when its is_holiday is the boolean true or
\* a string equal to "true" ignoring case; with any other value the
\* candidate is discarded, no save is called and no row is written.
C6_IsHolidayDecision ==
    lastEvent.kind \in {"handed", "discarded"} =>
        /\ lastEvent.kind = "handed" <=> TrueIgnoringCase(lastEvent.flag)
        /\ lastEvent.kind = "handed" =>
              /\ lastCall.op = "save"
              /\ lastCall.data.is_holiday = lastEvent.flag
              /\ lastEvent.i \in saveCalls
        /\ lastEvent.kind = "discarded" =>
              /\ lastCall = NoCall
              /\ ~lastEvent.changed
              /\ lastEvent.i \notin saveCalls

\* a response with is_holiday "TrUE" was handed to the save
C6_Witness ==
    /\ lastEvent.kind = "handed"
    /\ lastEvent.flag = PyStr(<<"T","r","U","E">>)
    /\ lastEvent.changed

\* C7: no source adapter raises, whatever the upstream response, so the
\* COLLECT step of the unit never raises.
C7_AdaptersNeverRaise == unitResult # "collect_raised"

\* C10: on an empty store, two sources with one record each for 25 December
\* 2024, one candidate "Christmas Day", a checker answer is_holiday = true
\* with regions ["National Holiday"]: the unit leaves one holiday row and no
\* region row, and the fetch returns {CA: {"Christmas Day": []}}.
C10_EndToEnd ==
    (/\ pc = "done"
     /\ unitResult = "completed"
     /\ store0 = [holidays |-> {}, regions |-> {}]
     /\ raw_holidays = [ninjas_holidays |-> <<[date |-> D25, name |-> "Christmas"]>>,
                        nager_holidays |-> <<[date |-> D25, name |-> "Noel"]>>,
                        open_holidays |-> <<>>]
     /\ Len(Cands) = 1
     /\ Cands[1].date = PyStr(D25)
     /\ Cands[1].name = "Christmas Day"
     /\ lastCall.op = "save"
     /\ lastCall.outcome # "sqlite_error"
     /\ lastCall.data.date = PyStr(D25)
     /\ lastCall.data.is_holiday = PyBool(TRUE)
     /\ "regions" \in DOMAIN lastCall.data
     /\ lastCall.data.regions = PyList(<<"National Holiday">>))
    => /\ Cardinality(holidays) = 1
       /\ regions = {}
       /\ get_holidays_for_date(holidays, regions, D25, FALSE)
             = [cc \in {"CA"} |-> [n \in {"Christmas Day"} |-> <<>>]]

\* C12: when the three adapters return empty lists the unit ends at once:
\* no deduplication or checker request is made, no candidate is taken, no
\* save is called, the tables are as before the unit and the token total is
\* unchanged.
C12_EmptyCollectEndsUnit ==
    (pc # "idle" /\ unitResult # "collect_raised" /\ raw_holidays = NoRaw)
    => /\ pc = "done"
       /\ unitResult = "no_data"
       /\ llm_call = NoLLMCall
       /\ apiAttempt = 0
       /\ safeAttempt = 0
       /\ sent = {}
       /\ saveCalls = {}
       /\ idx = 0
       /\ lastCall = NoCall
       /\ holidays = store0.holidays
       /\ regions = store0.regions
       /\ grand_total_tokens = 0

\* a unit whose three sources gave nothing has returned
C12_Witness ==
    /\ pc = "done"
    /\ unitResult = "no_data"
    /\ raw_holidays = NoRaw


\* the save of lastCall reached the statement at which sqlite3 raised
StorageFailureMet ==
    /\ lastCall.op = "save"
    /\ \/ lastCall.fail = "early"
       \/ /\ lastCall.fail \in {"regions", "commit"}
          /\ HasRequiredKeys(lastCall.data)
          /\ lastCall.data.date.t # "none"
          /\ LET regs == DictGet(lastCall.data, "regions", PyList(<<>>))
             IN  IF NoRegionRestriction(regs) THEN lastCall.fail = "commit"
                 ELSE regs.t = "list"

\* C13: a storage failure in _save_verified_holiday or get_holidays_for_date
\* stays inside the method. The save returns after its "except sqlite3.Error"
\* clause with both tables as before the call, the loop goes on to the next
\* candidate (or the unit ends normally after the last one), and a failing
\* fetch returns the empty mapping.
C13_StorageFailureContained ==
    /\ StorageFailureMet =>
          /\ lastCall.outcome = "sqlite_error"
          /\ holidays = lastCall.before.holidays
          /\ regions = lastCall.before.regions
          /\ lastEvent.kind = "handed"
          /\ ~lastEvent.changed
          /\ lastEvent.i \in saveCalls
          /\ idx = lastEvent.i + 1
          /\ pc = (IF lastEvent.i < Len(Cands) THEN "loop" ELSE "done")
          /\ unitResult = (IF lastEvent.i < Len(Cands) THEN "none" ELSE "completed")
    /\ (fetched.op = "fetch" /\ fetched.failed) => fetched.result = <<>>

\* the save of the first candidate met a failing COMMIT and wrote nothing,
\* the second candidate was then verified and saved, and a fetch after the
\* unit met a storage failure
C13_Witness ==
    /\ pc = "done"
    /\ sent = {1, 2}
    /\ saveCalls = {1, 2}
    /\ lastCall.op = "save"
    /\ lastCall.fail = "none"
    /\ lastCall.outcome = "saved"
    /\ lastCall.before.holidays = {}
    /\ Cardinality(holidays) = 1
    /\ Cands[1].name # Cands[2].name
    /\ fetched.op = "fetch"
    /\ fetched.failed


\* the stages of a unit in the order of the code
StageRank(p) ==
    CASE p = "idle" -> 0
      [] p = "dedup" -> 1
      [] p \in {"loop", "verify"} -> 2
      [] OTHER -> 3

\* what holds of the stage the unit is in
C14_Order ==
    /\ pc = "idle" => raw_holidays = NoRaw /\ llm_call = NoLLMCall
    /\ pc \in {"idle", "dedup"} => sent = {} /\ saveCalls = {} /\ idx = 0
    /\ pc \in {"loop", "verify"} =>
          /\ holidays_to_check.t = "list"
          /\ idx \in 1..Len(Cands)
    /\ unitResult \in {"collect_raised", "no_data", "dedup_failed", "dedup_raised",
                       "telemetry_raised"} => sent = {} /\ saveCalls = {} /\ idx = 0
    /\ Len(Cands) = 0 => sent = {}
    /\ sent \subseteq 1..idx
    /\ saveCalls \subseteq sent
    /\ saveCalls \subseteq 1..(idx - 1)

\* what holds of every step of a unit
C14_Step ==
    /\ StageRank(pc') >= StageRank(pc)
    /\ idx' \in {idx, idx + 1}
    /\ sent \subseteq sent'
    /\ saveCalls \subseteq saveCalls'
    /\ sent' # sent => pc = "verify" /\ sent' = sent \cup {idx}
    /\ (pc = "verify" /\ llm_call'.ended = "returned") => idx' = idx + 1
    /\ saveCalls' # saveCalls =>
          /\ pc = "verify"
          /\ llm_call'.ended = "returned"
          /\ saveCalls' = saveCalls \cup {idx}
          /\ idx \in sent'
    /\ holidays_to_check' # holidays_to_check =>
          \/ pc = "dedup"
          \/ /\ pc = "loop"
             /\ pc' = "verify"
             /\ Len(holidays_to_check'.v) = Len(holidays_to_check.v)
             /\ \A i \in 1..Len(holidays_to_check.v) :
                   i # idx => holidays_to_check'.v[i] = holidays_to_check.v[i]

\* C14: a unit goes forward only: the adapters, then deduplication, then the
\* candidates one at a time in the order of the deduplicated list. A checker
\* request is made only for the candidate the loop is at and only after
\* deduplication returned a list; a save is made only in the step in which
\* that candidate's checker response arrives, and that step leaves the
\* candidate, so each candidate has at most one verification response and
\* at most one save; an empty list leads to no checker request.
C14_ForwardOrder == []C14_Order /\ [][C14_Step]_vars

\* a unit of two candidates, each verified and saved in turn
C14_Witness ==
    /\ pc = "done"
    /\ unitResult = "completed"
    /\ Len(Cands) = 2
    /\ sent = {1, 2}
    /\ saveCalls = {1, 2}
    /\ idx = 3


\* C15: the requests one call of _get_safe_llm_response has sent and seen
\* fail never exceed the attempt ceiling of the retry policy.
C15_RequestCeiling ==
    llm_call.requests <= MaxAttempts


\* while a stage waits for _get_safe_llm_response the call has not ended
\* and is within its attempts
C16_Running ==
    pc \in {"dedup", "verify"} =>
        /\ llm_call.ended = "no"
        /\ safeAttempt \in 1..MaxAttempts
        /\ apiAttempt \in 1..MaxAttempts

\* one attempt of a call of _get_safe_llm_response
C16_Attempt ==
    (pc \in {"dedup", "verify"} /\ llm_call' # llm_call) =>
        /\ llm_call'.last = "bad_json" =>
              IF safeAttempt < MaxAttempts
              THEN /\ llm_call'.ended = "no"
                   /\ llm_call'.requests = llm_call.requests + 1
                   /\ safeAttempt' = safeAttempt + 1
                   /\ apiAttempt' = 1
                   /\ UNCHANGED <<pc, idx, unitResult, holidays_to_check, holidays,
                                  regions, saveCalls, grand_total_tokens>>
              ELSE /\ llm_call'.ended = "InvalidJSONPayloadError"
                   /\ pc' \notin {"dedup", "verify", "raised"}
                   /\ UNCHANGED <<holidays_to_check, holidays, regions, saveCalls,
                                  grand_total_tokens>>
        /\ llm_call'.ended = "returned" <=> llm_call'.last = "parsed"
        /\ llm_call'.last = "parsed" => pc' \notin {"dedup", "verify"}

\* C16: when the text of an attempt has no recoverable JSON object,
\* _get_safe_llm_response sends a new request for the next attempt while
\* attempts are left, and raises InvalidJSONPayloadError to the stage when
\* that attempt was the last one; the call returns only with a response
\* that parsed, and the first such response ends it.
C16_FreshRequestOrRaise == []C16_Running /\ [][C16_Attempt]_vars

\* two texts of one checker call were rejected by the parser and the third
\* request of the call is under way
C16_Witness ==
    /\ pc = "verify"
    /\ llm_call = [requests |-> MaxAttempts - 1, last |-> "bad_json", ended |-> "no"]
    /\ safeAttempt = MaxAttempts
    /\ apiAttempt = 1


\* C17: the usage values reported with an LLM response change neither the
\* outcome of the unit nor that of a candidate: no unit raises because of
\* the token count of the deduplication response, and no candidate is
\* dropped because of the token count of its checker response.
C17_TelemetryNeutral ==
    /\ unitResult # "telemetry_raised"
    /\ lastEvent.kind # "answer_exception"


\* every region row refers to a holiday row, and ids are not shared
C18_ReferentialIntegrity ==
    /\ \A r \in regions : \E h \in holidays : h.id = r.holiday_id
    /\ \A h1, h2 \in holidays : h1.id = h2.id => h1 = h2
    /\ \A r1, r2 \in regions : r1.id = r2.id => r1 = r2

\* every row of both tables is there, unchanged, after the step
C18_RowsKept ==
    /\ holidays \subseteq holidays'
    /\ regions \subseteq regions'

\* C18: the store only grows: no step of a unit (its saves included) and no
\* fetch deletes or changes a holiday row or a region row, and every region
\* row always refers to an existing holiday row.
C18_StoreOnlyGrows == []C18_ReferentialIntegrity /\ [][C18_RowsKept]_vars

\* a save added a holiday row and a region row to a store that already
\* held a holiday with a region
C18_Witness ==
    /\ lastCall.op = "save"
    /\ lastCall.outcome = "saved"
    /\ lastCall.before.holidays # {}
    /\ lastCall.before.regions # {}
    /\ Cardinality(holidays) = Cardinality(lastCall.before.holidays) + 1
    /\ Cardinality(regions) = Cardinality(lastCall.before.regions) + 1


\* both parallel saves have returned
BothReturned == \A u \in Units : conn[u].at = "returned"

\* the store holds one row for the holiday of the parallel saves and one
\* region row for each distinct region name of the two lists
ParallelStoreComplete ==
    LET rows == HolidayRows(holidays, ParallelKey[1], ParallelKey[2].v, ParallelKey[3])
        names == UNION {Range(conn[u].data.regions.v) : u \in Units}
        regionRows == {r \in regions : \E h \in rows : r.holiday_id = h.id}
    IN  /\ Cardinality(holidays) = 1
        /\ Cardinality(rows) = 1
        /\ {r.region_name : r \in regionRows} = names
        /\ Cardinality(regionRows) = Cardinality(names)
        /\ regionRows = regions

\* C19: when two units save the same (country_code, date, name) in parallel
\* with overlapping region lists, then after both saves, whatever the order
\* of their steps, the store holds exactly one holiday row for the triple
\* and one region row per distinct region name of the two lists.
C19_ParallelSaves ==
    BothReturned => ParallelStoreComplete

\* the same for the runs in which each save got the write lock
ParallelSavesThatGotTheLock ==
    (BothReturned /\ \A u \in Units : conn[u].outcome = "saved") => ParallelStoreComplete


\* C21: no holiday row written by a unit is dated on a Saturday or a
\* Sunday, whatever date the checker response carries.
C21_NoWeekendRow ==
    \A h \in holidays :
        LET dt == Strptime(h.holiday_date)
        IN  dt.ok => Weekday(dt.y, dt.m, dt.d) < 5


----------------------------------------------------------------------------
(* Properties of create_chat_completion *)

\* the body is an object whose first choice has a message with a content
HasCompletionChoice(body) ==
    /\ IsDict(body)
    /\ "choices" \in DOMAIN body
    /\ body.choices.t = "list"
    /\ Len(body.choices.v) > 0
    /\ IsDict(body.choices.v[1])
    /\ "message" \in DOMAIN body.choices.v[1]
    /\ IsDict(body.choices.v[1].message)
    /\ "content" \in DOMAIN body.choices.v[1].message

\* C20: an attempt of create_chat_completion either returns or raises
\* APIError, nothing else. A network error, a rejected status, an envelope
\* without a completion choice and any other error met while the response
\* is read all raise APIError; a response with a completion choice and no
\* usage field returns the content with tokens 0 and cost 0.
C20_AttemptContract ==
    completion # NotRequested =>
        /\ completion.raised \in {"none", "APIError"}
        /\ http_response.transport \in {"network_error", "http_error"} =>
              completion = Raises("APIError")
        /\ (http_response.transport = "ok" /\ ~HasCompletionChoice(http_response.body)) =>
              completion = Raises("APIError")
        /\ completion.raised = "none" =>
              /\ HasCompletionChoice(http_response.body)
              /\ completion.value.result =
                    http_response.body.choices.v[1].message.content
        /\ (/\ http_response.transport = "ok"
            /\ HasCompletionChoice(http_response.body)
            /\ "usage" \notin DOMAIN http_response.body) =>
              completion = Returns(
                  [result |-> http_response.body.choices.v[1].message.content,
                   tokens |-> PyNum(0), price |-> PyFloat(0)])

\* a response with a completion choice and no usage field was returned
\* with tokens 0 and cost 0
C20_Witness ==
    /\ http_response.transport = "ok"
    /\ "usage" \notin DOMAIN http_response.body
    /\ completion.raised = "none"
    /\ completion.value = [result |-> Content, tokens |-> PyNum(0), price |-> PyFloat(0)]


----------------------------------------------------------------------------
(* Properties of _parse_llm_json_response *)

FirstOpen(s) == CHOOSE i \in 1..Len(s) : s[i] = "{" /\ \A j \in 1..(i - 1) : s[j] # "{"
LastClose(s) == CHOOSE i \in 1..Len(s) : s[i] = "}" /\ \A j \in (i + 1)..Len(s) : s[j] # "}"

\* the text has a "{" and a "}" after the first "{"
HasSpan(s) ==
    /\ \E i \in 1..Len(s) : s[i] = "{"
    /\ \E i \in 1..Len(s) : s[i] = "}"
    /\ LastClose(s) > FirstOpen(s)

\* C8: the parser returns the strict parse of the span from the first "{"
\* to the last "}" of the text, which is an object, or it raises
\* InvalidJSONPayloadError (no "{", no "}" after it, or a span that does not
\* parse); it raises nothing else.
C8_ParserContract ==
    parse_result # NotParsed =>
        IF /\ response_text.t = "str"
           /\ HasSpan(response_text.v)
           /\ JsonLoads(SubSeq(response_text.v, FirstOpen(response_text.v),
                               LastClose(response_text.v))).ok
        THEN /\ parse_result.raised = "none"
             /\ parse_result.value =
                   JsonLoads(SubSeq(response_text.v, FirstOpen(response_text.v),
                                    LastClose(response_text.v))).val
             /\ parse_result.value.t = "dict"
        ELSE parse_result = Raises("InvalidJSONPayloadError")

\* the object was recovered from a text with prose before it
C8_Witness ==
    /\ response_text = PyStr(<<"x", "{", "k", "1", "}">>)
    /\ parse_result = Returns([t |-> "dict", v |-> <<PyNum(1)>>])

====
